---- MODULE Spec2Model ----
(***************************************************************************)
(* State-machine model of the AutoNumbering QGIS plugin                    *)
(* (src/auto_numbering.py): the controller's layer reference, activation   *)
(* flag and undo history, the toggle action / dock / undo button it        *)
(* drives, and the host's attribute table of the "number" field.           *)
(*                                                                         *)
(* The host application is the environment.  It offers three answers to    *)
(* iface.activeLayer(): no layer, one polygon layer and one line layer.    *)
(* The line layer carries no "number" field (start_numbering rejects it    *)
(* before the field is created), so the host refuses every write to it.    *)
(* The result the host reports for an attribute write is an input of the   *)
(* two handlers that read it (number_selected, undo_last): Spec is the     *)
(* plugin over a host that accepts every valid write, SpecRefusing the     *)
(* plugin over a host that may refuse any of them.                         *)
(***************************************************************************)
EXTENDS Integers, Sequences, FiniteSets, TLC

(* ------------------------------ bounds --------------------------------- *)
\* number of features of the polygon layer in Spec and SpecRefusing
NumFeatures == 2
\* number of features of the polygon layer in SpecSelect and SpecRestart
ManyFeatures == 4
\* attribute values found in the layer at start-up: None or -1..MaxVal
MaxVal == 3
\* cap on the (unbounded) undo history: it may exceed the number of features of
\* the polygon layer by at most ExtraHistory records
ExtraHistory == 1

(* --------------------------- host vocabulary --------------------------- *)
NoLayer == "NoLayer"
Poly    == "Poly"
Line    == "Line"
Layers  == {Poly, Line}

\* QgsWkbTypes geometry kind of a layer
geometryType(l) == IF l = Poly THEN "PolygonGeometry" ELSE "LineGeometry"

\* an attribute value: Python None, or an integer n held as <<n>>
None   == <<>>
Num(n) == <<n>>
InitValues == {None} \cup {Num(n) : n \in (0 - 1)..MaxVal}

VARIABLES
  layer,        \* self.layer: NoLayer, Poly or Line
  active,       \* self.active
  history,      \* self.history: sequence of [feature_id, old_value, new_value]
  undo_btn,     \* undo_btn.isEnabled()
  toggle_action,\* toggle_action.isChecked()
  dock_widget,  \* dock_widget.isVisible()
  connected,    \* per layer: number of connections selectionChanged -> number_selected
  hasField,     \* per layer: the schema holds the field "number"
  fields,       \* per layer: feature id -> value of the field "number"
  last,         \* observation of the last operation: its inputs, outcome and message
  fresh,        \* the collection started all unnumbered and has since seen only
                \* first-time single selections while active
  picked,       \* the features selected so far in such a run
  pending       \* assignments seen since the last confirmed reset, less the
                \* undo_last calls that found one of them outstanding

vars == <<layer, active, history, undo_btn, toggle_action, dock_widget,
          connected, hasField, fields, last, fresh, picked, pending>>

ctrl == <<layer, active, history, undo_btn, toggle_action, dock_widget>>

\* feature ids of a layer, 1..n, in the order getFeatures() enumerates them
FeatureIds(l) == DOMAIN fields[l]

\* op: the operation; sel, fid: size of the selection at the notification and,
\* when it is 1, the selected feature; reply: the answer to the confirmation
\* dialog; res: the path taken; old: the value the written feature held before;
\* msg: the number named in the message-bar notification (0: none);
\* prev: for undo_last and restart_numbering, the outcome of the operation before
Obs(op, res, fid, old, msg, prev) ==
  [op |-> op, sel |-> 0, reply |-> "", res |-> res, fid |-> fid, old |-> old,
   msg |-> msg, prev |-> prev]

(* ------------------------- attribute predicates ------------------------ *)
\* "x is not None and x > 0"
IsNumbered(v) == v # None /\ v[1] > 0

\* layer.fields().indexOf(self.field_name): -1 when the field is absent
indexOf(l) == IF hasField[l] THEN 0 ELSE 0 - 1

\* layer.changeAttributeValue(fid, idx, val) inside startEditing/commitChanges:
\* the write takes effect and is reported True iff the host accepts it
writeOk(flds, l, fid, idx, hostOk) == hostOk /\ idx >= 0 /\ fid \in DOMAIN flds[l]

changeAttributeValue(flds, l, fid, idx, val, hostOk) ==
  IF writeOk(flds, l, fid, idx, hostOk)
    THEN [flds EXCEPT ![l][fid] = val]
    ELSE flds

(* ------------------------------ Init ----------------------------------- *)
\* the state after __init__ and initGui (lines 20-25, 76, 95) over a polygon
\* layer of n features whose "number" field, if present, holds values of V
InitOn(n, V) ==
  /\ layer = NoLayer
  /\ active = FALSE
  /\ history = <<>>
  /\ undo_btn = FALSE
  /\ toggle_action = FALSE
  /\ dock_widget = FALSE
  /\ connected = [l \in Layers |-> 0]
  /\ \E hf \in BOOLEAN : hasField = [l \in Layers |-> l = Poly /\ hf]
  /\ \E vals \in [1..n -> V] :
       fields = [l \in Layers |->
                   IF l = Poly
                     THEN (IF hasField[Poly] THEN vals ELSE [f \in 1..n |-> None])
                     ELSE [f \in 1..1 |-> None]]
  /\ last = Obs("init", "none", 0, None, 0, "")
  /\ fresh = \A f \in FeatureIds(Poly) : fields[Poly][f] = None
  /\ picked = {}
  /\ pending = 0

Init == InitOn(NumFeatures, InitValues)

(* ------------------------ start / stop / toggle ------------------------ *)
\* a start that checks only that a layer is there
refused_onlyMissing(al) == al = NoLayer

\* lines 106 and 111: the layer is refused
refused(al) == al = NoLayer \/ geometryType(al) # "PolygonGeometry"

\* start_numbering, lines 103-135; checked is the state the click left the
\* toggle action in
start_numbering(al, checked) ==
  /\ layer' = al
  /\ IF refused(al)
       THEN /\ toggle_action' = FALSE            \* setChecked(False)
            /\ last' = Obs("start_numbering", "warning", 0, None, 0, "")
            /\ UNCHANGED <<active, dock_widget, connected, hasField>>
       ELSE /\ toggle_action' = checked
            /\ hasField' = [hasField EXCEPT ![al] = TRUE]
            /\ connected' = [connected EXCEPT ![al] = @ + 1]
            /\ active' = TRUE
            /\ dock_widget' = TRUE
            /\ last' = Obs("start_numbering", "activated", 0, None, 0, "")
  /\ UNCHANGED <<history, undo_btn, fields>>

\* stop_numbering, lines 137-144; a failing disconnect is swallowed
stop_numbering(checked) ==
  /\ connected' = IF layer # NoLayer /\ connected[layer] > 0
                    THEN [connected EXCEPT ![layer] = @ - 1]
                    ELSE connected
  /\ active' = FALSE
  /\ dock_widget' = FALSE
  /\ toggle_action' = checked
  /\ last' = Obs("stop_numbering", "stopped", 0, None, 0, "")
  /\ UNCHANGED <<layer, history, undo_btn, hasField, fields>>

\* toggle_numbering, lines 97-101: the user clicks the checkable toggle action
\* (which flips its checked state) while the host's active layer is al
toggle_numbering(al) ==
  /\ LET checked == ~toggle_action IN
     IF checked THEN start_numbering(al, checked) ELSE stop_numbering(checked)
  /\ fresh' = (fresh /\ picked = {})
  /\ picked' = {}
  /\ pending' = pending

(* --------------------------- number_selected --------------------------- *)
\* mutant: the comparison of line 164 turned round
RECURSIVE max_scan_flipped(_, _, _)
max_scan_flipped(vals, i, max_number) ==
  IF i > Len(vals) THEN max_number
  ELSE max_scan_flipped(vals, i + 1,
                IF vals[i] # None /\ vals[i][1] < max_number
                  THEN vals[i][1] ELSE max_number)

\* lines 162-165: linear scan for the largest value, starting from 0
RECURSIVE max_scan(_, _, _)
max_scan(vals, i, max_number) ==
  IF i > Len(vals) THEN max_number
  ELSE max_scan(vals, i + 1,
                IF vals[i] # None /\ vals[i][1] > max_number
                  THEN vals[i][1] ELSE max_number)

\* the values of a layer's features as getFeatures() yields them
featureValues(flds, l) == [i \in 1..Cardinality(DOMAIN flds[l]) |-> flds[l][i]]

\* a next number counted from the numbered features instead of their maximum
next_number_count(flds, l) ==
  Cardinality({f \in DOMAIN flds[l] : IsNumbered(flds[l][f])}) + 1

\* line 166
next_number(flds, l) == max_scan(featureValues(flds, l), 1, 0) + 1

\* mutant: the record keeps no old value
UndoRecord_noOld(fid, old, new) ==
  [feature_id |-> fid, old_value |-> None, new_value |-> new]

\* lines 169-173: the undo record
UndoRecord(fid, old, new) ==
  [feature_id |-> fid, old_value |-> old, new_value |-> new]

\* line 150: self.layer.selectedFeatures(); S is the selection of the polygon layer
selectedFeatures(l, S) == IF l = Poly THEN S ELSE {}

\* mutant: the handler tests the layer reference instead of the flag
isActive_byLayer == layer # NoLayer

\* line 147: the handler goes on only while numbering is active
isActive == active

\* mutant: only the empty selection is turned away
singleSelection_nonEmpty(S) == ~(S = {})

\* lines 150-152: the handler goes on only with exactly one selected feature
singleSelection(S) == ~(S = {} \/ Cardinality(S) > 1)

\* mutant: the test is "> 1"
alreadyNumbered_above1(v) == v # None /\ v[1] > 1

\* line 158: "skip if already numbered"
alreadyNumbered(v) == v # None /\ v[1] > 0

\* a record put under the stack instead of on top of it
push_under(h, rec) == <<rec>> \o h

\* line 169: self.history.append(...)
push(h, rec) == Append(h, rec)

\* what the notification is about: the size of the selection, its feature when
\* it is a single one, and the value that feature holds
ObsSel(S, res, msg) ==
  LET f == IF Cardinality(S) = 1 THEN CHOOSE x \in S : TRUE ELSE 0 IN
  [op |-> "number_selected", sel |-> Cardinality(S), reply |-> "", res |-> res,
   fid |-> f, old |-> IF f = 0 THEN None ELSE fields[Poly][f],
   msg |-> msg, prev |-> ""]

\* number_selected, lines 146-191, run when the selection of the polygon layer
\* has become S; hostOk is the host's answer to the attribute write
number_selected(S, hostOk) ==
  /\ fresh' = (fresh /\ active /\ hostOk /\ Cardinality(S) = 1 /\ S \cap picked = {})
  /\ picked' = IF fresh' THEN picked \cup S ELSE {}
  /\ IF ~isActive THEN
       /\ last' = ObsSel(S, "inactive", 0)
       /\ UNCHANGED <<ctrl, connected, hasField, fields>>
     ELSE IF ~singleSelection(selectedFeatures(layer, S)) THEN
       /\ last' = ObsSel(S, "ignored", 0)
       /\ UNCHANGED <<ctrl, connected, hasField, fields>>
     ELSE
       LET feature == CHOOSE f \in selectedFeatures(layer, S) : TRUE  \* selected_features[0]
           old     == fields[layer][feature]
       IN
       IF ~hasField[layer] THEN         \* feature["number"] raises KeyError
         /\ last' = ObsSel(S, "raised", 0)
         /\ UNCHANGED <<ctrl, connected, hasField, fields>>
       ELSE IF alreadyNumbered(old) THEN
         /\ last' = ObsSel(S, "skipped", 0)
         /\ UNCHANGED <<ctrl, connected, hasField, fields>>
       ELSE
         LET next    == next_number(fields, layer)
             idx     == indexOf(layer)
             success == writeOk(fields, layer, feature, idx, hostOk)
         IN
         /\ Len(history) < Cardinality(DOMAIN fields[Poly]) + ExtraHistory
         /\ history' = push(history, UndoRecord(feature, old, next))
         /\ fields' = changeAttributeValue(fields, layer, feature, idx, Num(next), hostOk)
         /\ undo_btn' = IF success THEN TRUE ELSE undo_btn
         /\ last' = ObsSel(S, IF success THEN "assigned" ELSE "failed",
                           IF success THEN next ELSE 0)
         /\ UNCHANGED <<layer, active, toggle_action, dock_widget, connected, hasField>>
  /\ pending' = IF fields' # fields THEN pending + 1 ELSE pending

(* ------------------------------ undo_last ------------------------------ *)
\* mutant: the oldest record is the one reverted
top_oldest(h) == h[1]

\* line 197: self.history.pop() removes and returns the last record
top(h) == h[Len(h)]
pop(h) == SubSeq(h, 1, Len(h) - 1)

\* what came before an undo_last: "reset" when only undo_last calls have run
\* since reset_numbers was confirmed, else the outcome of the operation before
before_undo ==
  IF \/ last.op = "reset_numbers" /\ last.reply = "Yes"
     \/ last.op = "undo_last" /\ last.prev = "reset"
    THEN "reset" ELSE last.res

\* undo_last, lines 193-217
undo_last(hostOk) ==
  /\ fresh' = FALSE /\ picked' = {}
  /\ pending' = IF pending > 0 THEN pending - 1 ELSE 0
  /\ IF history = <<>> THEN
       /\ last' = Obs("undo_last", "empty", 0, None, 0, before_undo)
       /\ UNCHANGED <<ctrl, connected, hasField, fields>>
     ELSE
       LET last_action == top(history) IN
       IF layer = NoLayer THEN          \* self.layer.fields() raises AttributeError
         /\ history' = pop(history)
         /\ last' = Obs("undo_last", "raised", last_action.feature_id, None, 0, before_undo)
         /\ UNCHANGED <<layer, active, undo_btn, toggle_action, dock_widget,
                        connected, hasField, fields>>
       ELSE
         LET idx     == indexOf(layer)
             fid     == last_action.feature_id
             success == writeOk(fields, layer, fid, idx, hostOk)
             held    == IF fid \in DOMAIN fields[layer] THEN fields[layer][fid] ELSE None
         IN
         /\ history' = pop(history)
         /\ fields' = changeAttributeValue(fields, layer, fid, idx,
                                           last_action.old_value, hostOk)
         /\ undo_btn' = IF history' = <<>> THEN FALSE ELSE undo_btn
         /\ last' = Obs("undo_last", IF success THEN "undone" ELSE "failed",
                        fid, held, IF success THEN last_action.new_value ELSE 0,
                        before_undo)
         /\ UNCHANGED <<layer, active, toggle_action, dock_widget, connected, hasField>>

(* ---------------------------- reset_numbers ---------------------------- *)
\* lines 235-240: one write of None per feature, results ignored
RECURSIVE reset_loop(_, _, _)
reset_loop(flds, l, i) ==
  IF i > Cardinality(DOMAIN flds[l]) THEN flds
  ELSE reset_loop(changeAttributeValue(flds, l, i, indexOf(l), None, TRUE), l, i + 1)

\* mutant: the answer is not looked at
confirmed_always(reply) == TRUE

\* line 231: the answer to the confirmation dialog
confirmed(reply) == reply = "Yes"

\* mutant: the history is not cleared
cleared_not(h) == h

\* line 243: self.history.clear()
cleared(h) == <<>>

\* the dialog's answer ("" when the dialog was not shown) and the path taken
ObsReset(reply, res) ==
  [op |-> "reset_numbers", sel |-> 0, reply |-> reply, res |-> res, fid |-> 0,
   old |-> None, msg |-> 0, prev |-> ""]

\* reset_numbers, lines 219-244
reset_numbers(reply) ==
  /\ fresh' = FALSE /\ picked' = {}
  /\ pending' = IF layer # NoLayer /\ reply = "Yes" THEN 0 ELSE pending
  /\ IF layer = NoLayer THEN
       /\ last' = ObsReset("", "nolayer")
       /\ UNCHANGED <<ctrl, connected, hasField, fields>>
     ELSE IF ~confirmed(reply) THEN
       /\ last' = ObsReset(reply, "declined")
       /\ UNCHANGED <<ctrl, connected, hasField, fields>>
     ELSE
       /\ fields' = reset_loop(fields, layer, 1)
       /\ history' = cleared(history)
       /\ undo_btn' = FALSE
       /\ last' = ObsReset(reply, "confirmed")
       /\ UNCHANGED <<layer, active, toggle_action, dock_widget, connected, hasField>>

(* -------------------------- restart_numbering -------------------------- *)
\* lines 253-259: the numbered features, in enumeration order
RECURSIVE collect_numbered(_, _, _, _)
collect_numbered(flds, l, i, acc) ==
  IF i > Cardinality(DOMAIN flds[l]) THEN acc
  ELSE collect_numbered(flds, l, i + 1,
         IF IsNumbered(flds[l][i])
           THEN Append(acc, [feature |-> i, old_number |-> flds[l][i][1]])
           ELSE acc)

\* mutant: an item is inserted in front of the items of equal key
RECURSIVE insert_sorted_unstable(_, _)
insert_sorted_unstable(sorted, item) ==
  IF sorted = <<>> THEN <<item>>
  ELSE IF Head(sorted).old_number < item.old_number
    THEN <<Head(sorted)>> \o insert_sorted_unstable(Tail(sorted), item)
    ELSE <<item>> \o sorted

\* line 262: list.sort(key=old_number) is a stable ascending sort; an item is
\* inserted behind every item whose key is not larger
RECURSIVE insert_sorted(_, _)
insert_sorted(sorted, item) ==
  IF sorted = <<>> THEN <<item>>
  ELSE IF Head(sorted).old_number <= item.old_number
    THEN <<Head(sorted)>> \o insert_sorted(Tail(sorted), item)
    ELSE <<item>> \o sorted

RECURSIVE sort_by_old_number(_, _, _)
sort_by_old_number(items, i, acc) ==
  IF i > Len(items) THEN acc
  ELSE sort_by_old_number(items, i + 1, insert_sorted(acc, items[i]))

\* mutant: enumerate(numbered_features) counts from 0
RECURSIVE renumber_loop_from0(_, _, _, _)
renumber_loop_from0(flds, l, items, i) ==
  IF i > Len(items) THEN flds
  ELSE renumber_loop_from0(
         changeAttributeValue(flds, l, items[i].feature, indexOf(l), Num(i - 1), TRUE),
         l, items, i + 1)

\* lines 266-271: enumerate(numbered_features, 1), one write per item
RECURSIVE renumber_loop(_, _, _, _)
renumber_loop(flds, l, items, i) ==
  IF i > Len(items) THEN flds
  ELSE renumber_loop(
         changeAttributeValue(flds, l, items[i].feature, indexOf(l), Num(i), TRUE),
         l, items, i + 1)

\* lines 253-272 as a function of the attribute table
renumbered(flds, l) ==
  renumber_loop(flds, l,
                sort_by_old_number(collect_numbered(flds, l, 1, <<>>), 1, <<>>), 1)

\* a restart that also drops the undo stack and its button
restart_numbering_clearing ==
  /\ fresh' = FALSE /\ picked' = {}
  /\ pending' = pending
  /\ fields' = IF layer # NoLayer /\ hasField[layer]
                 THEN renumbered(fields, layer) ELSE fields
  /\ history' = <<>>
  /\ undo_btn' = FALSE
  /\ last' = Obs("restart_numbering", "renumbered", 0, None, 0, last.res)
  /\ UNCHANGED <<layer, active, toggle_action, dock_widget, connected, hasField>>

\* restart_numbering, lines 246-272
restart_numbering ==
  /\ fresh' = FALSE /\ picked' = {}
  /\ pending' = pending
  /\ IF layer = NoLayer THEN
       /\ last' = Obs("restart_numbering", "nolayer", 0, None, 0, last.res)
       /\ UNCHANGED <<ctrl, connected, hasField, fields>>
     ELSE IF ~hasField[layer] THEN      \* feature["number"] raises KeyError
       /\ last' = Obs("restart_numbering", "raised", 0, None, 0, last.res)
       /\ UNCHANGED <<ctrl, connected, hasField, fields>>
     ELSE
       /\ fields' = renumbered(fields, layer)
       /\ last' = Obs("restart_numbering", "renumbered", 0, None, 0, last.res)
       /\ UNCHANGED <<ctrl, connected, hasField>>

(* ------------------------------ behaviour ------------------------------ *)
ActiveLayers == {NoLayer, Poly, Line}
Replies      == {"Yes", "No"}

\* the user clicks the toggle action while the host's active layer is al
Toggle  == \E al \in ActiveLayers : toggle_numbering(al)
\* the user changes the selection of the polygon layer to S and the handler runs
Select  == \E S \in SUBSET FeatureIds(Poly) : number_selected(S, TRUE)
Undo    == undo_last(TRUE)
Reset   == \E reply \in Replies : reset_numbers(reply)
Restart == restart_numbering
\* the same two handlers when the host refuses the attribute write
SelectRefused == \E S \in SUBSET FeatureIds(Poly) : number_selected(S, FALSE)
UndoRefused   == undo_last(FALSE)

Next == Toggle \/ Select \/ Undo \/ Reset \/ Restart

\* the plugin over a host that accepts every valid attribute write
Spec == Init /\ [][Next]_vars

\* the plugin over a host that may refuse any attribute write
NextRefusing == Next \/ SelectRefused \/ UndoRefused
SpecRefusing == Init /\ [][NextRefusing]_vars

\* selections only, on a larger collection that starts all unnumbered
InitSelect  == InitOn(ManyFeatures, {None})
NextSelect  == Toggle \/ Select
SpecSelect  == InitSelect /\ [][NextSelect]_vars

\* renumbering only, on a larger collection holding any values
InitRestart == InitOn(ManyFeatures, InitValues)
NextRestart == Toggle \/ Restart
SpecRestart == InitRestart /\ [][NextRestart]_vars

\* every operation on a collection that starts all unnumbered, every start on
\* the polygon layer, over a host that accepts every valid attribute write
ToggleSame  == toggle_numbering(Poly)
NextSingle  == ToggleSame \/ Select \/ Undo \/ Reset \/ Restart
SpecSingle  == InitSelect /\ [][NextSingle]_vars

(* ------------------------------- claims -------------------------------- *)
\* every attribute other than the "number" value of feature f of the polygon
\* layer is the same before and after the step (f = 0: every attribute)
OnlyFeatureMayChange(f) ==
  \A l \in Layers : \A g \in DOMAIN fields[l] :
    (l = Poly /\ g = f) \/ fields'[l][g] = fields[l][g]

\* C1: on a collection that starts all unnumbered, while numbering is active,
\* the features selected one at a time, each for the first time and with nothing
\* else in between, hold exactly the values 1..m (m of them selected so far),
\* no value twice, in whatever order they were selected; every feature not yet
\* selected is still unnumbered.  With all n selected the values are {1..n}.
C1_SelectionOrder ==
  fresh =>
    /\ {fields[Poly][f] : f \in picked} = {Num(i) : i \in 1..Cardinality(picked)}
    /\ \A f, g \in picked : f # g => fields[Poly][f] # fields[Poly][g]
    /\ \A f \in FeatureIds(Poly) \ picked : fields[Poly][f] = None

\* all features selected once, feature 2 first and feature 1 last
C1_Witness ==
  /\ fresh
  /\ picked = FeatureIds(Poly)
  /\ fields[Poly][2] = Num(1)
  /\ fields[Poly][1] = Num(Cardinality(FeatureIds(Poly)))

\* C2: an assignment changes no value but the selected feature's, and an
\* undo_last that directly follows a successful assignment of feature f puts
\* back the value f held before the assignment (None, 0 or negative alike) and
\* changes no other feature's value.
C2_UndoInverse ==
  [][ /\ last'.op = "number_selected" => OnlyFeatureMayChange(last'.fid)
      /\ (last.op = "number_selected" /\ last.res = "assigned"
            /\ last'.op = "undo_last")
         => /\ fields'[Poly][last.fid] = last.old
            /\ OnlyFeatureMayChange(last.fid) ]_vars

\* an undo right after an assignment has put a negative value back
C2_Witness ==
  /\ last.op = "undo_last"
  /\ last.prev = "assigned"
  /\ last.res = "undone"
  /\ fields[Poly][last.fid] = Num(0 - 1)

\* C3: the undo history is a stack: an assignment adds its record, for the
\* selected feature, on top of the records already there, and every undo_last
\* on a non-empty history removes exactly the topmost record (the most recently
\* pushed one not yet popped) and, where the layer holds the field, writes that
\* record's old value to that record's feature and to no other.
C3_UndoIsLIFO ==
  [][ /\ (last'.op = "number_selected" /\ history' # history)
         => /\ Len(history') = Len(history) + 1
            /\ SubSeq(history', 1, Len(history)) = history
            /\ history'[Len(history')].feature_id = last'.fid
      /\ (last'.op = "undo_last" /\ history # <<>>)
         => /\ Len(history') = Len(history) - 1
            /\ history' = SubSeq(history, 1, Len(history'))
            /\ (layer # NoLayer /\ hasField[layer])
               => fields' = [fields EXCEPT
                    ![layer][history[Len(history)].feature_id] =
                       history[Len(history)].old_value] ]_vars

\* two undos in a row: the first left an older record, the second took it
C3_Witness ==
  /\ last.op = "undo_last"
  /\ last.res = "undone"
  /\ last.prev = "undone"
  /\ history = <<>>
  /\ \A f \in FeatureIds(Poly) : fields[Poly][f] = None

\* C4: a confirmed reset_numbers empties the undo history, and every
\* undo_last that follows it with only undo_last calls in between changes no
\* field value and no controller state.
C4_ResetThenUndo ==
  [][ /\ (last'.op = "reset_numbers" /\ last'.reply = "Yes") => history' = <<>>
      /\ (last'.op = "undo_last" /\ last'.prev = "reset")
         => UNCHANGED <<fields, ctrl, connected, hasField>> ]_vars

\* the second of two undo_last calls after a confirmed reset of the polygon layer
C4_Witness ==
  /\ last.op = "undo_last"
  /\ last.prev = "reset"
  /\ last.res = "empty"
  /\ layer = Poly
  /\ active

\* C5: restart_numbering on a layer that holds the field renumbers densely
\* and keeps the order: the k features whose value was present and positive
\* hold exactly 1..k afterwards, a smaller old value gets a smaller new value,
\* equal old values keep their enumeration order, and every feature whose
\* value was None or <= 0 keeps its value.
C5_RestartDense ==
  [][ (last'.op = "restart_numbering" /\ layer # NoLayer /\ hasField[layer])
      => LET old == fields[layer]
             new == fields'[layer]
             P   == {f \in DOMAIN old : old[f] # None /\ old[f][1] > 0}
         IN
         /\ {new[f] : f \in P} = {Num(i) : i \in 1..Cardinality(P)}
         /\ \A f, g \in P : old[f][1] < old[g][1] => new[f][1] < new[g][1]
         /\ \A f, g \in P : (old[f] = old[g] /\ f < g) => new[f][1] < new[g][1]
         /\ \A f \in DOMAIN old \ P : new[f] = old[f] ]_vars

\* the layout of the spec's example after a restart: features 1, 2, 3 hold
\* 2, 1, 3 and feature 4 is unnumbered
C5_Witness ==
  /\ last.op = "restart_numbering"
  /\ last.res = "renumbered"
  /\ layer = Poly
  /\ fields[Poly][1] = Num(2)
  /\ fields[Poly][2] = Num(1)
  /\ fields[Poly][3] = Num(3)
  /\ ~IsNumbered(fields[Poly][4])

\* C6: restart_numbering is idempotent: a restart_numbering that directly
\* follows a restart_numbering leaves every field value as it is.
C6_RestartIdempotent ==
  [][ (last.op = "restart_numbering" /\ last'.op = "restart_numbering")
      => fields' = fields ]_vars

\* a second restart in a row on a layer with numbered and unnumbered features
C6_Witness ==
  /\ last.op = "restart_numbering"
  /\ last.res = "renumbered"
  /\ last.prev = "renumbered"
  /\ \E f \in FeatureIds(Poly) : IsNumbered(fields[Poly][f])
  /\ \E f \in FeatureIds(Poly) : fields[Poly][f] = Num(0)

\* C7: a notification whose selection holds no feature or more than one
\* changes no field value and not the undo history.
C7_MultiSelectIgnored ==
  [][ (last'.op = "number_selected" /\ last'.sel # 1)
      => UNCHANGED <<fields, history>> ]_vars

\* while active, every feature is selected at once and one of them is unnumbered
C7_Witness ==
  /\ last.op = "number_selected"
  /\ last.sel = Cardinality(FeatureIds(Poly))
  /\ last.sel > 1
  /\ active
  /\ \E f \in FeatureIds(Poly) : ~IsNumbered(fields[Poly][f])

\* C8: a notification whose selection is one feature that holds a value > 0
\* changes no field value and pushes no undo record.
C8_ReselectKeeps ==
  [][ (/\ last'.op = "number_selected"
       /\ last'.sel = 1
       /\ fields[Poly][last'.fid] # None
       /\ fields[Poly][last'.fid][1] > 0)
      => UNCHANGED <<fields, history>> ]_vars

\* while active, a feature holding 1 has been selected on its own
C8_Witness ==
  /\ last.op = "number_selected"
  /\ last.sel = 1
  /\ active
  /\ last.old = Num(1)
  /\ fields[Poly][last.fid] = Num(1)

\* C9: a notification that arrives while numbering is inactive changes no
\* field value, not the undo history and not the undo button; the activation
\* flag is raised only by a successful start_numbering and lowered only by
\* stop_numbering, and a notification changes fields or history only while
\* the flag is up.
C9_InactiveIgnored ==
  [][ /\ (last'.op = "number_selected" /\ ~active)
         => UNCHANGED <<fields, history, undo_btn>>
      /\ (last'.op = "number_selected" /\ <<fields, history>>' # <<fields, history>>)
         => active /\ active'
      /\ (~active /\ active') => (last'.op = "start_numbering" /\ ~refused(layer'))
      /\ (active /\ ~active') => last'.op = "stop_numbering" ]_vars

\* after a stop, an unnumbered feature of the layer is selected on its own and
\* stays unnumbered
C9_Witness ==
  /\ last.op = "number_selected"
  /\ last.sel = 1
  /\ ~active
  /\ layer = Poly
  /\ hasField[Poly]
  /\ ~IsNumbered(fields[Poly][last.fid])

\* C10: answering No to the confirmation of reset_numbers changes no field
\* value, not the undo history, the undo button, the layer reference or the
\* activation flag.
C10_DeclineKeeps ==
  [][ (last'.op = "reset_numbers" /\ last'.reply = "No")
      => UNCHANGED <<fields, history, undo_btn, layer, active>> ]_vars

\* a reset was declined while there was a number, a record and the undo button
C10_Witness ==
  /\ last.op = "reset_numbers"
  /\ last.reply = "No"
  /\ history # <<>>
  /\ undo_btn
  /\ \E f \in FeatureIds(Poly) : IsNumbered(fields[Poly][f])

\* C11: a start on no layer or on a layer that is not a polygon layer aborts:
\* numbering stays inactive, no selection-change subscription is made, no field
\* is added to any schema, the controls stay hidden and the toggle control is
\* back to off
C11_RefusedStartAborts ==
  [][ (last'.op = "start_numbering" /\ layer' \in {NoLayer, Line})
        => /\ ~active /\ ~active'
           /\ connected' = connected
           /\ hasField' = hasField
           /\ ~dock_widget /\ ~dock_widget'
           /\ ~toggle_action' ]_vars

C11_Witness ==
  /\ last.op = "start_numbering"
  /\ layer = Line
  /\ ~active /\ ~toggle_action /\ ~dock_widget
  /\ connected[Line] = 0 /\ ~hasField[Line]

\* C12: the undo stack is non-empty exactly when at least one assignment made
\* since the last reset has not yet been undone, that is when the assignments
\* since the last reset outnumber the undo_last calls that found one outstanding
C12_StackIffPending == (history # <<>>) <=> (pending > 0)

\* C13: an undo record is created only with a successful assignment: a
\* selection notification whose attribute write the host reports as failed
\* leaves the undo stack as it was before the notification
C13_RecordOnlyOnSuccess ==
  [][ (last'.op = "number_selected" /\ fields' = fields) => history' = history ]_vars

\* C14: while numbering is active, a notification of a single selected feature
\* that is not already numbered writes to it 1 + the maximum of the field over
\* all features, an empty value counting as 0 and the maximum never below 0;
\* the number is at least 1 and greater than every value present before
C14_NextIsMaxPlusOne ==
  [][ (last'.op = "number_selected" /\ last'.sel = 1 /\ active
         /\ ~IsNumbered(last'.old))
        => LET f       == last'.fid
               present == {fields[Poly][g][1] :
                             g \in {x \in FeatureIds(Poly) : fields[Poly][x] # None}}
               cands   == present \cup {0}
               m       == CHOOSE x \in cands : \A y \in cands : y <= x
           IN /\ fields'[Poly][f] = Num(m + 1)
              /\ fields'[Poly][f][1] >= 1
              /\ \A v \in present : v < fields'[Poly][f][1]
              /\ OnlyFeatureMayChange(f) ]_vars

C14_Witness ==
  /\ last.op = "number_selected" /\ last.res = "assigned"
  /\ last.old # None
  /\ last.msg > 2
  /\ fields[Poly][last.fid] = Num(last.msg)

\* C15: whenever undo_last reverts a record, after any sequence of operations
\* (restart_numbering since the record was pushed included), the number its
\* notification reports is the value the feature held immediately before
\* that undo_last
C15_UndoReportsHeld ==
  (last.op = "undo_last" /\ last.res = "undone") => last.old = Num(last.msg)

\* C16: restart_numbering pushes, pops and clears nothing on the undo stack,
\* and changes neither the undo button, the layer reference nor the
\* activation flag
C16_RestartFrame ==
  [][ last'.op = "restart_numbering"
        => /\ history' = history
           /\ undo_btn' = undo_btn
           /\ layer' = layer
           /\ active' = active ]_vars

C16_Witness ==
  /\ last.op = "restart_numbering" /\ last.res = "renumbered"
  /\ active /\ undo_btn /\ layer = Poly
  /\ history # <<>>
  /\ fields[Poly][top(history).feature_id] # Num(top(history).new_value)

\* the features of the polygon layer that hold a positive number
numberedFeatures == {f \in FeatureIds(Poly) : IsNumbered(fields[Poly][f])}

\* C17: from an all-unnumbered collection, every write succeeding and every
\* start targeting the same layer, after any sequence of start, stop,
\* selection notifications, undo_last, confirmed or declined reset_numbers and
\* restart_numbering the positive field values are pairwise distinct and are
\* exactly 1..k, k the number of numbered features
C17_NumberedDense ==
  LET k == Cardinality(numberedFeatures) IN
  /\ \A f, g \in numberedFeatures : f # g => fields[Poly][f] # fields[Poly][g]
  /\ {fields[Poly][f][1] : f \in numberedFeatures} = 1..k
  /\ \A f \in FeatureIds(Poly) : fields[Poly][f] = None \/ IsNumbered(fields[Poly][f])

C17_Witness ==
  /\ last.op = "undo_last" /\ last.res = "undone"
  /\ Cardinality(numberedFeatures) >= 2
  /\ fields[Poly][last.fid] = None

\* C18: under the same premises the undo stack holds exactly one record per
\* numbered feature and none for an unnumbered one, ordered bottom to top by
\* ascending current number; so undo_last always unnumbers the feature that
\* holds the highest number
C18_StackMatchesFields ==
  /\ [](/\ Len(history) = Cardinality(numberedFeatures)
        /\ {history[i].feature_id : i \in 1..Len(history)} = numberedFeatures
        /\ \A i, j \in 1..Len(history) :
             i < j => fields[Poly][history[i].feature_id][1]
                        < fields[Poly][history[j].feature_id][1])
  /\ [][ (last'.op = "undo_last" /\ history # <<>>)
           => /\ last'.fid \in numberedFeatures
              /\ \A g \in numberedFeatures :
                   fields[Poly][g][1] <= fields[Poly][last'.fid][1]
              /\ fields'[Poly][last'.fid] = None
              /\ OnlyFeatureMayChange(last'.fid) ]_vars

C18_Witness ==
  /\ last.op = "undo_last" /\ last.res = "undone"
  /\ Len(history) >= 2
  /\ fields[Poly][top(history).feature_id] = Num(Len(history))
  /\ top(history).feature_id < history[1].feature_id

\* C19: after any sequence of start (on any layer, succeeding or failing),
\* stop, assignments and undo_last, whenever the undo stack is non-empty the
\* layer reference is non-null and is the layer on which every record on the
\* stack was recorded (records are only ever made on the polygon layer, the one
\* layer start_numbering activates on); so undo_last never runs without a
\* layer reference nor writes to a feature of another layer
C19_LayerOfRecords ==
  history # <<>> => (layer # NoLayer /\ layer = Poly)

\* C20: in every reachable state, those after attribute writes the host
\* reports as failed included, the undo button is enabled exactly when the
\* undo stack is non-empty
C20_ButtonIffStack == undo_btn <=> (history # <<>>)

====
